---- MODULE Spec2Model ----
(***************************************************************************)
(* Model of the value resolver `compose` of diskettejs/composed-props      *)
(* (src/src/compose.ts).  compose(value, options) returns a closure; each  *)
(* invocation of the closure with a state runs the pipeline                *)
(*   resolve default -> evaluate -> fallback -> default -> transform.      *)
(* JavaScript values are records [t, n]: t is the runtime tag of the value *)
(* and n its payload.  User-supplied callables are drawn from a fixed      *)
(* table of behaviours; every call is appended to a call log, as a mock    *)
(* function would record it.                                               *)
(***************************************************************************)
EXTENDS Integers, Sequences, FiniteSets

VARIABLES resolver, renderProps, outcome, invoked,
          hookIn, hookOut, invocations,
          component, memo, rendered

vars == <<resolver, renderProps, outcome, invoked,
          hookIn, hookOut, invocations,
          component, memo, rendered>>

(***************************************************************************)
(* Bounds of the value universe.                                           *)
(***************************************************************************)
MaxNum == 1
MaxStr == 1
MaxState == 2
MaxKeys == 2
MaxInvocations == 2
MaxRenders == 3

(***************************************************************************)
(* JavaScript values.                                                      *)
(***************************************************************************)
Undefined == [t |-> "undefined", n |-> 0]
Null == [t |-> "null", n |-> 0]
Bool(b) == [t |-> "boolean", n |-> b]
Num(k) == [t |-> "number", n |-> k]
Str(k) == [t |-> "string", n |-> k]
Obj(k) == [t |-> "object", n |-> k]
Err(k) == [t |-> "error", n |-> k]
Fn(i) == [t |-> "function", n |-> i]

\* The behaviours of the callables a caller may supply, by position of the
\* argument they return; an argument that was not passed reads as undefined.
Behaviours ==
  << "retUndefined", "retNull", "retArg1", "retArg2", "retArg3",
     "retConst", "throwsA", "throwsB" >>

Functions == { Fn(i) : i \in 1..Len(Behaviours) }

FnOf(b) == Fn(CHOOSE i \in 1..Len(Behaviours) : Behaviours[i] = b)

Literals ==
  {Undefined, Null} \cup { Bool(b) : b \in 0..1 }
    \cup { Num(k) : k \in 0..MaxNum } \cup { Str(k) : k \in 0..MaxStr }

States == { Obj(k) : k \in 1..MaxState }

\* value: V | ((props: U, defaultValue?: V) => V) | undefined
PropValues == Literals \cup States \cup Functions

\* typeof v
TypeOf(v) == IF v.t \in {"null", "object", "error"} THEN "object" ELSE v.t

\* ToBoolean(v), the test of `a && b` and of `if (a)`
Truthy(v) ==
  CASE v.t \in {"undefined", "null"} -> FALSE
    [] v.t \in {"boolean", "number", "string"} -> v.n # 0
    [] OTHER -> TRUE

(***************************************************************************)
(* Options: `given` is FALSE when compose is called without options; a     *)
(* field that is missing from the record reads as undefined.               *)
(***************************************************************************)
NoOptions ==
  [given |-> FALSE, fallback |-> Undefined, transform |-> Undefined,
   default |-> Undefined]

OptionsSet ==
  {NoOptions} \cup
  [given : {TRUE}, fallback : {Undefined} \cup Functions,
   transform : {Undefined} \cup Functions, default : PropValues]

\* options?.fallback, options?.transform, options?.default
OptFallback(options) == IF options.given THEN options.fallback ELSE Undefined
OptTransform(options) == IF options.given THEN options.transform ELSE Undefined
OptDefault(options) == IF options.given THEN options.default ELSE Undefined

(***************************************************************************)
(* Calling a callable: the value it returns, or the error it throws.       *)
(***************************************************************************)
Arg(args, i) == IF i <= Len(args) THEN args[i] ELSE Undefined

Returns(v) == [ret |-> v, threw |-> FALSE, error |-> Undefined]
Throws(e) == [ret |-> Undefined, threw |-> TRUE, error |-> e]

Call(f, args) ==
  LET b == Behaviours[f.n] IN
  CASE b = "retUndefined" -> Returns(Undefined)
    [] b = "retNull" -> Returns(Null)
    [] b = "retArg1" -> Returns(Arg(args, 1))
    [] b = "retArg2" -> Returns(Arg(args, 2))
    [] b = "retArg3" -> Returns(Arg(args, 3))
    [] b = "retConst" -> Returns(Str(1))
    [] b = "throwsA" -> Throws(Err(1))
    [] b = "throwsB" -> Throws(Err(2))

\* Faulty variant: a call inside try/catch, a throw is swallowed and reads as a
\* call that returned undefined.
AfterCallSwallowsThrow(fr, role, f, args) ==
  [fr EXCEPT !.calls = Append(@, [role |-> role, fn |-> f, args |-> args])]

\* One entry of the call log: which parameter of compose was called, the
\* callable itself and the arguments it received.
Entry(role, f, args) == [role |-> role, fn |-> f, args |-> args]

\* The local variables of one invocation of the returned function.
NoFrame ==
  [resolvedDefault |-> Undefined, result |-> Undefined, calls |-> <<>>,
   threw |-> FALSE, error |-> Undefined]

\* Records a call made by a step and its effect on the frame: a throw leaves
\* the function at once, so every later step sees threw and does nothing.
AfterCall(fr, role, f, args) ==
  LET c == Call(f, args) IN
  [fr EXCEPT !.calls = Append(@, Entry(role, f, args)),
             !.threw = c.threw, !.error = c.error]

(***************************************************************************)
(* The steps of the function returned by compose, in source order.         *)
(***************************************************************************)
\* Faulty variant: options.default is taken as it is, a callable default is not called.
ResolveDefaultVerbatim(options, props) ==
  [NoFrame EXCEPT !.resolvedDefault = OptDefault(options)]

\* Faulty variant: a callable default is called without the state.
ResolveDefaultWithoutState(options, props) ==
  LET d == OptDefault(options) IN
  IF TypeOf(d) = "function"
    THEN [AfterCall(NoFrame, "default", d, <<>>)
            EXCEPT !.resolvedDefault = Call(d, <<>>).ret]
    ELSE [NoFrame EXCEPT !.resolvedDefault = d]

ResolveDefault(options, props) ==
  LET d == OptDefault(options) IN
  IF TypeOf(d) = "function"
    THEN [AfterCall(NoFrame, "default", d, <<props>>)
            EXCEPT !.resolvedDefault = Call(d, <<props>>).ret]
    ELSE [NoFrame EXCEPT !.resolvedDefault = d]

\* Faulty variant: a falsy literal is taken for a missing value (`value || undefined`).
EvaluateFalsyIsAbsent(fr, value, props) ==
  IF fr.threw THEN fr
  ELSE IF TypeOf(value) = "function"
    THEN [AfterCall(fr, "value", value, <<props, fr.resolvedDefault>>)
            EXCEPT !.result = Call(value, <<props, fr.resolvedDefault>>).ret]
    ELSE [fr EXCEPT !.result = IF Truthy(value) THEN value ELSE Undefined]

\* Faulty variant: the callable is called once to probe it and once more for its
\* result, the probe without the default.
EvaluateCallsTwice(fr, value, props) ==
  IF fr.threw THEN fr
  ELSE IF TypeOf(value) = "function"
    THEN [AfterCall(AfterCall(fr, "value", value, <<props>>),
                    "value", value, <<props, fr.resolvedDefault>>)
            EXCEPT !.result = Call(value, <<props, fr.resolvedDefault>>).ret]
    ELSE [fr EXCEPT !.result = value]

Evaluate(fr, value, props) ==
  IF fr.threw THEN fr
  ELSE IF TypeOf(value) = "function"
    THEN [AfterCall(fr, "value", value, <<props, fr.resolvedDefault>>)
            EXCEPT !.result = Call(value, <<props, fr.resolvedDefault>>).ret]
    ELSE [fr EXCEPT !.result = value]

\* Faulty variant: fallback is consulted only when there is no default to fall back on.
FallbackOnlyWithoutDefault(fr, options, props) ==
  IF fr.threw THEN fr
  ELSE IF /\ TypeOf(fr.result) = "undefined"
          /\ Truthy(OptFallback(options))
          /\ fr.resolvedDefault = Undefined
    THEN [AfterCall(fr, "fallback", OptFallback(options),
                    <<props, fr.resolvedDefault>>)
            EXCEPT !.result =
              Call(OptFallback(options), <<props, fr.resolvedDefault>>).ret]
    ELSE fr

\* Faulty variant: absence is tested with `result == null`, which null satisfies too.
FallbackOnNullish(fr, options, props) ==
  IF fr.threw THEN fr
  ELSE IF fr.result \in {Undefined, Null} /\ Truthy(OptFallback(options))
    THEN [AfterCall(fr, "fallback", OptFallback(options),
                    <<props, fr.resolvedDefault>>)
            EXCEPT !.result =
              Call(OptFallback(options), <<props, fr.resolvedDefault>>).ret]
    ELSE fr

\* Faulty variant: absence is tested with `!result`, which every falsy value satisfies.
FallbackOnFalsy(fr, options, props) ==
  IF fr.threw THEN fr
  ELSE IF ~Truthy(fr.result) /\ Truthy(OptFallback(options))
    THEN [AfterCall(fr, "fallback", OptFallback(options),
                    <<props, fr.resolvedDefault>>)
            EXCEPT !.result =
              Call(OptFallback(options), <<props, fr.resolvedDefault>>).ret]
    ELSE fr

\* Faulty variant: a throw of the evaluation is treated as a missing value and
\* the pipeline goes on to fallback.
FallbackRecoversFromThrow(fr, options, props) ==
  IF Truthy(OptFallback(options)) /\ (fr.threw \/ TypeOf(fr.result) = "undefined")
    THEN [AfterCall(fr, "fallback", OptFallback(options),
                    <<props, fr.resolvedDefault>>)
            EXCEPT !.result =
              Call(OptFallback(options), <<props, fr.resolvedDefault>>).ret]
    ELSE fr

Fallback(fr, options, props) ==
  IF fr.threw THEN fr
  ELSE IF TypeOf(fr.result) = "undefined" /\ Truthy(OptFallback(options))
    THEN [AfterCall(fr, "fallback", OptFallback(options),
                    <<props, fr.resolvedDefault>>)
            EXCEPT !.result =
              Call(OptFallback(options), <<props, fr.resolvedDefault>>).ret]
    ELSE fr

\* Faulty variant: the default replaces a missing result only when it is truthy.
DefaultSubstitutionWhenTruthy(fr) ==
  IF fr.threw THEN fr
  ELSE IF TypeOf(fr.result) = "undefined" /\ Truthy(fr.resolvedDefault)
    THEN [fr EXCEPT !.result = fr.resolvedDefault]
    ELSE fr

\* Faulty variant: the default is used only when no fallback has been tried.
DefaultSubstitutionUnlessFallback(fr) ==
  IF fr.threw THEN fr
  ELSE IF /\ TypeOf(fr.result) = "undefined"
          /\ fr.resolvedDefault # Undefined
          /\ \A i \in 1..Len(fr.calls) : fr.calls[i].role # "fallback"
    THEN [fr EXCEPT !.result = fr.resolvedDefault]
    ELSE fr

DefaultSubstitution(fr) ==
  IF fr.threw THEN fr
  ELSE IF TypeOf(fr.result) = "undefined" /\ fr.resolvedDefault # Undefined
    THEN [fr EXCEPT !.result = fr.resolvedDefault]
    ELSE fr

\* Faulty variant: the guard is `result != null`, so a null result is not transformed.
TransformSkipsNull(fr, options, props) ==
  IF fr.threw THEN fr
  ELSE IF Truthy(OptTransform(options)) /\ fr.result \notin {Undefined, Null}
    THEN [AfterCall(fr, "transform", OptTransform(options),
                    <<fr.result, props, fr.resolvedDefault>>)
            EXCEPT !.result =
              Call(OptTransform(options),
                   <<fr.result, props, fr.resolvedDefault>>).ret]
    ELSE fr

\* Faulty variant: transform is handed options.default instead of resolvedDefault.
TransformPassesRawDefault(fr, options, props) ==
  IF fr.threw THEN fr
  ELSE IF Truthy(OptTransform(options)) /\ fr.result # Undefined
    THEN [AfterCall(fr, "transform", OptTransform(options),
                    <<fr.result, props, OptDefault(options)>>)
            EXCEPT !.result =
              Call(OptTransform(options),
                   <<fr.result, props, OptDefault(options)>>).ret]
    ELSE fr

\* Faulty variant: transform is applied whenever it is given, to an absent
\* result too.
TransformAlways(fr, options, props) ==
  IF fr.threw THEN fr
  ELSE IF Truthy(OptTransform(options))
    THEN [AfterCall(fr, "transform", OptTransform(options),
                    <<fr.result, props, fr.resolvedDefault>>)
            EXCEPT !.result =
              Call(OptTransform(options),
                   <<fr.result, props, fr.resolvedDefault>>).ret]
    ELSE fr

Transform(fr, options, props) ==
  IF fr.threw THEN fr
  ELSE IF Truthy(OptTransform(options)) /\ fr.result # Undefined
    THEN [AfterCall(fr, "transform", OptTransform(options),
                    <<fr.result, props, fr.resolvedDefault>>)
            EXCEPT !.result =
              Call(OptTransform(options),
                   <<fr.result, props, fr.resolvedDefault>>).ret]
    ELSE fr

\* Faulty variant: transform is applied right after evaluation, before fallback and
\* default substitution.
ResolveTransformsEarly(value, options, props) ==
  DefaultSubstitution(
    Fallback(
      Transform(Evaluate(ResolveDefault(options, props), value, props),
                options, props),
      options, props))

\* Faulty variant: without options the value is returned as it is, a callable
\* value is not evaluated.
ResolveSkipsWithoutOptions(value, options, props) ==
  IF ~options.given THEN [NoFrame EXCEPT !.result = value]
  ELSE
    Transform(
      DefaultSubstitution(
        Fallback(Evaluate(ResolveDefault(options, props), value, props),
                 options, props)),
      options, props)

\* Faulty variant: the first outcome is kept in a variable of the module and
\* handed out again by every later invocation.
ResolveCached(value, options, props) ==
  IF invoked THEN outcome
  ELSE
    Transform(
      DefaultSubstitution(
        Fallback(Evaluate(ResolveDefault(options, props), value, props),
                 options, props)),
      options, props)

\* (renderProps) => { ... }: the body of the returned function.
Resolve(value, options, props) ==
  Transform(
    DefaultSubstitution(
      Fallback(Evaluate(ResolveDefault(options, props), value, props),
               options, props)),
    options, props)

\* compose(value, options): the closure over value and options.
compose(value, options) == [value |-> value, options |-> options]

(***************************************************************************)
(* composeRender: the resolver with a `render` option for static values.   *)
(***************************************************************************)
NoRenderOptions ==
  [given |-> FALSE, fallback |-> Undefined, render |-> Undefined,
   transform |-> Undefined]

RenderOptionsSet ==
  {NoRenderOptions} \cup
  [given : {TRUE}, fallback : {Undefined} \cup Functions,
   render : {Undefined} \cup Functions,
   transform : {Undefined} \cup Functions]

\* options?.render
OptRender(options) == IF options.given THEN options.render ELSE Undefined

\* The locals of one invocation; `evaluated` keeps what the first statement
\* assigned to result.
NoRenderFrame ==
  [evaluated |-> Undefined, result |-> Undefined, calls |-> <<>>,
   threw |-> FALSE, error |-> Undefined]

\* Faulty variant: render is applied to what a callable value returned, too.
EvaluateRenderAlways(value, options, props) ==
  IF TypeOf(value) = "function"
    THEN LET fr == AfterCall(NoRenderFrame, "value", value, <<props>>)
             v == Call(value, <<props>>).ret
         IN IF fr.threw \/ ~Truthy(OptRender(options))
              THEN [fr EXCEPT !.evaluated = v, !.result = v]
              ELSE [AfterCall(fr, "render", OptRender(options), <<v, props>>)
                      EXCEPT
                        !.evaluated = Call(OptRender(options), <<v, props>>).ret,
                        !.result = Call(OptRender(options), <<v, props>>).ret]
    ELSE IF Truthy(OptRender(options))
      THEN [AfterCall(NoRenderFrame, "render", OptRender(options),
                      <<value, props>>)
              EXCEPT
                !.evaluated = Call(OptRender(options), <<value, props>>).ret,
                !.result = Call(OptRender(options), <<value, props>>).ret]
      ELSE [NoRenderFrame EXCEPT !.evaluated = value, !.result = value]

\* if (typeof value === 'function') ... else if (options?.render) ... else
EvaluateRender(value, options, props) ==
  IF TypeOf(value) = "function"
    THEN [AfterCall(NoRenderFrame, "value", value, <<props>>)
            EXCEPT !.evaluated = Call(value, <<props>>).ret,
                   !.result = Call(value, <<props>>).ret]
    ELSE IF Truthy(OptRender(options))
      THEN [AfterCall(NoRenderFrame, "render", OptRender(options),
                      <<value, props>>)
              EXCEPT
                !.evaluated = Call(OptRender(options), <<value, props>>).ret,
                !.result = Call(OptRender(options), <<value, props>>).ret]
      ELSE [NoRenderFrame EXCEPT !.evaluated = value, !.result = value]

\* if (typeof value === 'undefined' && options?.fallback)
FallbackRender(fr, value, options, props) ==
  IF fr.threw THEN fr
  ELSE IF TypeOf(value) = "undefined" /\ Truthy(OptFallback(options))
    THEN [AfterCall(fr, "fallback", OptFallback(options), <<props>>)
            EXCEPT !.result = Call(OptFallback(options), <<props>>).ret]
    ELSE fr

\* if (options?.transform)
TransformRender(fr, options, props) ==
  IF fr.threw THEN fr
  ELSE IF Truthy(OptTransform(options))
    THEN [AfterCall(fr, "transform", OptTransform(options),
                    <<fr.result, props>>)
            EXCEPT !.result =
              Call(OptTransform(options), <<fr.result, props>>).ret]
    ELSE fr

\* (renderProps) => { ... }: the body of the function composeRender returns.
ResolveRender(value, options, props) ==
  TransformRender(
    FallbackRender(EvaluateRender(value, options, props),
                   value, options, props),
    options, props)

\* composeRender(value, options): the closure over value and options.
composeRender(value, options) == [value |-> value, options |-> options]

(***************************************************************************)
(* Records of props, states and options.  A record is a function from the  *)
(* keys it has to their values; keys are numbered in the order in which    *)
(* Object.keys and for..in enumerate them.                                 *)
(***************************************************************************)
Keys == 1..MaxKeys

EmptyRecord == [k \in {} |-> Undefined]

\* props[key], state[key]: a missing key reads as undefined
Get(rec, key) == IF key \in DOMAIN rec THEN rec[key] ELSE Undefined

\* rec[key] = v
Put(rec, key, v) ==
  [k \in DOMAIN rec \cup {key} |-> IF k = key THEN v ELSE rec[k]]

\* { ...a, ...b }
Spread(a, b) ==
  [k \in DOMAIN a \cup DOMAIN b |-> IF k \in DOMAIN b THEN b[k] ELSE a[k]]

\* options?.[key]; compose reads a missing entry as no options
OptionFor(options, key) ==
  IF options.given /\ key \in DOMAIN options.map
    THEN options.map[key]
    ELSE NoOptions

\* options ? Object.keys(options) : []
OptionKeys(options) == IF options.given THEN DOMAIN options.map ELSE {}

RECURSIVE InOrder(_)
\* The keys of a set in enumeration order.
InOrder(S) ==
  IF S = {} THEN <<>>
  ELSE LET k == CHOOSE x \in S : \A y \in S : x <= y
       IN <<k>> \o InOrder(S \ {k})

\* Faulty variant: only the keys of props are walked (`for (const key in props)`).
AllKeysOfPropsOnly(props, options) == InOrder(DOMAIN props)

\* new Set([...Object.keys(props), ...(options ? Object.keys(options) : [])])
AllKeys(props, options) ==
  InOrder(DOMAIN props) \o InOrder(OptionKeys(options) \ DOMAIN props)

\* The calls one key's resolver made, as the hook's call log holds them.
Tagged(key, calls) ==
  [i \in 1..Len(calls) |->
     [key |-> key, role |-> calls[i].role, fn |-> calls[i].fn,
      args |-> calls[i].args]]

(***************************************************************************)
(* useComposedProps: the body of its useMemo factory.                      *)
(***************************************************************************)
\* The objects the factory can reach when it starts: its three arguments
\* and the fresh `resolved`.
HookFrame(props, state, options) ==
  [props |-> props, state |-> state, options |-> options,
   resolved |-> EmptyRecord, composed |-> EmptyRecord, calls |-> <<>>,
   threw |-> FALSE, error |-> Undefined]

\* Faulty variant: every key is resolved with the state of the first key.
ComposedStepFirstState(fr, key) ==
  IF fr.threw THEN fr
  ELSE
    LET value == Get(fr.props, key)
        stateForKey ==
          Get(fr.state, AllKeys(fr.props, fr.options)[1])
        option == OptionFor(fr.options, key)
        r == Resolve(value, option, stateForKey)
    IN [fr EXCEPT
          !.resolved = IF r.threw THEN @ ELSE Put(@, key, r.result),
          !.calls = @ \o Tagged(key, r.calls),
          !.threw = r.threw, !.error = r.error]

\* Faulty variant: the resolved value is also written back into props.
ComposedStepWritesProps(fr, key) ==
  IF fr.threw THEN fr
  ELSE
    LET value == Get(fr.props, key)
        stateForKey == Get(fr.state, key)
        option == OptionFor(fr.options, key)
        r == Resolve(value, option, stateForKey)
    IN [fr EXCEPT
          !.props = IF r.threw THEN @ ELSE Put(@, key, r.result),
          !.resolved = IF r.threw THEN @ ELSE Put(@, key, r.result),
          !.calls = @ \o Tagged(key, r.calls),
          !.threw = r.threw, !.error = r.error]

\* One turn of `for (const key of allKeys)`; a throw of the resolver leaves
\* the hook.
ComposedStep(fr, key) ==
  IF fr.threw THEN fr
  ELSE
    LET value == Get(fr.props, key)
        stateForKey == Get(fr.state, key)
        option == OptionFor(fr.options, key)
        r == Resolve(value, option, stateForKey)
    IN [fr EXCEPT
          !.resolved = IF r.threw THEN @ ELSE Put(@, key, r.result),
          !.calls = @ \o Tagged(key, r.calls),
          !.threw = r.threw, !.error = r.error]

RECURSIVE ComposedLoop(_, _)
ComposedLoop(fr, keys) ==
  IF keys = <<>> THEN fr
  ELSE ComposedLoop(ComposedStep(fr, Head(keys)), Tail(keys))

useComposedProps(props, state, options) ==
  ComposedLoop(HookFrame(props, state, options), AllKeys(props, options))

(***************************************************************************)
(* useComposableProps: the body of its useMemo factory.                    *)
(***************************************************************************)
\* Faulty variant: the options of the key are not handed to compose.
ComposableStepWithoutOptions(fr, key) ==
  [fr EXCEPT !.composed = Put(@, key, compose(Get(fr.props, key), NoOptions))]

\* One turn of the loop: composed[key] = compose(value, option)
ComposableStep(fr, key) ==
  [fr EXCEPT !.composed =
     Put(@, key, compose(Get(fr.props, key), OptionFor(fr.options, key)))]

RECURSIVE ComposableLoop(_, _)
ComposableLoop(fr, keys) ==
  IF keys = <<>> THEN fr
  ELSE ComposableLoop(ComposableStep(fr, Head(keys)), Tail(keys))

\* Faulty variant: a function is made for the keys of props only.
useComposablePropsOfPropsOnly(props, options) ==
  ComposableLoop(HookFrame(props, EmptyRecord, options), InOrder(DOMAIN props))

useComposableProps(props, options) ==
  ComposableLoop(HookFrame(props, EmptyRecord, options),
                 AllKeys(props, options))

(***************************************************************************)
(* createUseComposedProps(whitelist): the hook it returns.                 *)
(***************************************************************************)
\* Faulty variant: every prop is passed through, whitelisted ones included.
PartitionPassesAll(props, whitelist) ==
  [whitelistedProps |-> [k \in DOMAIN props \cap whitelist |-> props[k]],
   passThrough |-> props]

\* for (const key in props): whitelisted props on one side, the rest on the
\* other.
Partition(props, whitelist) ==
  [whitelistedProps |-> [k \in DOMAIN props \cap whitelist |-> props[k]],
   passThrough |-> [k \in DOMAIN props \ whitelist |-> props[k]]]

useComposedPropsWithWhitelist(whitelist, props, state, options) ==
  LET parts == Partition(props, whitelist)
      fr == useComposedProps(parts.whitelistedProps, state, options)
  IN [fr EXCEPT
        !.props = props,
        !.resolved = IF fr.threw THEN @ ELSE Spread(@, parts.passThrough)]

(***************************************************************************)
(* createUseComposableProps(whitelist): the hook it returns.  The record   *)
(* it returns is kept by what each key holds: `composed` has the keys that *)
(* hold a function, `resolved` the keys that hold a plain value.           *)
(***************************************************************************)
\* Faulty variant: the pass-through props are spread first, so a function
\* made for the same key replaces them.
useComposablePropsWithWhitelistComposedLast(whitelist, props, options) ==
  LET parts == Partition(props, whitelist)
      fr == useComposableProps(parts.whitelistedProps, options)
  IN [fr EXCEPT
        !.props = props,
        !.resolved =
          [k \in DOMAIN parts.passThrough \ DOMAIN fr.composed |->
             parts.passThrough[k]]]

\* { ...composed, ...passThrough }: a pass-through prop replaces a function
\* made for the same key.
useComposablePropsWithWhitelist(whitelist, props, options) ==
  LET parts == Partition(props, whitelist)
      fr == useComposableProps(parts.whitelistedProps, options)
  IN [fr EXCEPT
        !.props = props,
        !.composed =
          [k \in DOMAIN fr.composed \ DOMAIN parts.passThrough |->
             fr.composed[k]],
        !.resolved = parts.passThrough]

(***************************************************************************)
(* What a component hands to a hook.                                       *)
(***************************************************************************)
HookValues == {Undefined, Str(1), FnOf("retArg1"), FnOf("throwsA")}

Opt(f, t, d) == [given |-> TRUE, fallback |-> f, transform |-> t, default |-> d]

HookOptions ==
  { Opt(FnOf("retArg1"), Undefined, Undefined),
    Opt(Undefined, FnOf("retArg2"), Num(1)),
    Opt(FnOf("retUndefined"), Undefined, Str(0)) }

PropsSet == UNION { [K -> HookValues] : K \in SUBSET Keys }

OptionsMaps ==
  { [given |-> FALSE, map |-> EmptyRecord] } \cup
  { [given |-> TRUE, map |-> m] :
      m \in UNION { [K -> HookOptions] : K \in SUBSET Keys } }

\* One state per key, neighbouring keys in different states.
StateMaps == { [k \in Keys |-> Obj((k % MaxState) + 1)] }

NoHookIn ==
  [props |-> EmptyRecord, state |-> EmptyRecord,
   options |-> [given |-> FALSE, map |-> EmptyRecord]]

\* What the hook call of the component gave: the record it returned (out,
\* or composed for useComposableProps) or the error it threw, and the calls
\* it made.
NoHookOut ==
  [hook |-> "none", whitelist |-> {}, out |-> EmptyRecord,
   composed |-> EmptyRecord, calls |-> <<>>, threw |-> FALSE,
   error |-> Undefined]

HookResult(name, whitelist, fr) ==
  [hook |-> name, whitelist |-> whitelist,
   out |-> IF fr.threw THEN EmptyRecord ELSE fr.resolved,
   composed |-> fr.composed, calls |-> fr.calls, threw |-> fr.threw,
   error |-> fr.error]

(***************************************************************************)
(* Renders of a component.  The objects a component can hand to its hook   *)
(* live in heaps; a reference is the name of the heap and a position in    *)
(* it.  Two objects of a heap can have the same content and still be       *)
(* different objects.                                                      *)
(***************************************************************************)
Ref(heap, i) == [heap |-> heap, ref |-> i]

PropsHeap ==
  << [k \in {1, 2} |-> IF k = 1 THEN FnOf("retArg1") ELSE Str(1)],
     [k \in {1, 2} |-> IF k = 1 THEN FnOf("retArg1") ELSE Str(1)],
     [k \in {1} |-> Str(0)],
     [k \in {1} |-> FnOf("throwsA")] >>

StateHeap ==
  << [k \in Keys |-> Obj((k % MaxState) + 1)],
     [k \in Keys |-> Obj(((k + 1) % MaxState) + 1)] >>

OptionsHeap ==
  << [k \in {1, 2} |->
        IF k = 1 THEN Opt(Undefined, FnOf("retArg2"), Num(1))
                 ELSE Opt(FnOf("retArg1"), Undefined, Undefined)],
     [k \in {2} |-> Opt(FnOf("retUndefined"), Undefined, Str(0))] >>

\* The values of the caller's own dependency
DepRefs == 1..2

\* What a render hands to the hook: references to props and state, a
\* reference to options or 0 for undefined, and the caller's dependency.
RenderArgs ==
  [props : 1..Len(PropsHeap), state : 1..Len(StateHeap),
   options : 0..Len(OptionsHeap), dep : DepRefs]

PropsOf(args) == PropsHeap[args.props]
StateOf(args) == StateHeap[args.state]
OptionsOf(args) ==
  IF args.options = 0 THEN [given |-> FALSE, map |-> EmptyRecord]
  ELSE [given |-> TRUE, map |-> OptionsHeap[args.options]]

PropsRef(args) == Ref("props", args.props)
StateRef(args) == Ref("state", args.state)
OptionsRef(args) ==
  IF args.options = 0 THEN Ref("undefined", 0) ELSE Ref("options", args.options)

\* The object a hook creates during render number n.
Fresh(n) == Ref("render", n)

\* The component: the hook it calls on every render, and whether it passes
\* a dependency list of its own, [dep].
NoComponent == [hook |-> "none", whitelist |-> {}, customDeps |-> FALSE]

Components ==
  [hook : {"useComposedProps", "useComposableProps"}, whitelist : {{}},
   customDeps : BOOLEAN]
  \cup [hook : {"useComposedPropsWithWhitelist"}, whitelist : SUBSET {1, 2},
        customDeps : BOOLEAN]

\* The cell of useMemo: the dependency list and the value of the last run
\* of the factory.  A value has an identity (the render that made it) and
\* remembers the arguments it was made from.
NoValue ==
  [id |-> 0, from |-> [props |-> 0, state |-> 0, options |-> 0, dep |-> 0],
   resolved |-> EmptyRecord, composed |-> EmptyRecord]

NoMemo == [set |-> FALSE, deps |-> <<>>, value |-> NoValue]

\* What the last render gave: its number, its arguments, the record the hook
\* returned or the error it threw, whether the factory ran and the calls
\* made.
NoRendered ==
  [n |-> 0, args |-> NoValue.from, result |-> NoValue, recomputed |-> FALSE,
   calls |-> <<>>, threw |-> FALSE, error |-> Undefined]

\* Faulty variant: the dependency list is not looked at, the factory runs on
\* every render.
MemoHitNever(cell, deps) == FALSE

\* useMemo keeps the value when every dependency is the one of the last run
\* (Object.is).
MemoHit(cell, deps) == cell.set /\ cell.deps = deps

\* useMemo(factory, deps) in render n: fr is what the factory gives when it
\* runs.  A factory that throws makes the render throw and leaves the cell.
useMemo(cell, n, args, deps, fr) ==
  IF MemoHit(cell, deps)
    THEN [memo |-> cell, result |-> cell.value, recomputed |-> FALSE,
          calls |-> <<>>, threw |-> FALSE, error |-> Undefined]
  ELSE IF fr.threw
    THEN [memo |-> cell, result |-> NoValue, recomputed |-> TRUE,
          calls |-> fr.calls, threw |-> TRUE, error |-> fr.error]
  ELSE LET v == [id |-> n, from |-> args, resolved |-> fr.resolved,
                 composed |-> fr.composed]
       IN [memo |-> [set |-> TRUE, deps |-> deps, value |-> v],
           result |-> v, recomputed |-> TRUE, calls |-> fr.calls,
           threw |-> FALSE, error |-> Undefined]

\* Faulty variant: the caller's list is ignored.
ComposedDepsIgnoreCustom(customDeps, props, args) ==
  <<props, StateRef(args), OptionsRef(args)>>

\* deps ?? [props, state, options]
ComposedDeps(customDeps, props, args) ==
  IF customDeps THEN <<Ref("dep", args.dep)>>
  ELSE <<props, StateRef(args), OptionsRef(args)>>

\* deps ?? [props, options]
ComposableDeps(customDeps, props, args) ==
  IF customDeps THEN <<Ref("dep", args.dep)>>
  ELSE <<props, OptionsRef(args)>>

\* useComposedProps(props, state, options, deps) in render n
RenderedComposedProps(cell, n, args, customDeps) ==
  useMemo(cell, n, args, ComposedDeps(customDeps, PropsRef(args), args),
          useComposedProps(PropsOf(args), StateOf(args), OptionsOf(args)))

\* useComposableProps(props, options, deps) in render n
RenderedComposableProps(cell, n, args, customDeps) ==
  useMemo(cell, n, args, ComposableDeps(customDeps, PropsRef(args), args),
          useComposableProps(PropsOf(args), OptionsOf(args)))

\* The hook of createUseComposedProps(whitelist) in render n: whitelistedProps
\* is an object of this render, and the record returned is one too.
RenderedWithWhitelist(whitelist, cell, n, args, customDeps) ==
  LET parts == Partition(PropsOf(args), whitelist)
      r == useMemo(cell, n, args, ComposedDeps(customDeps, Fresh(n), args),
                   useComposedProps(parts.whitelistedProps, StateOf(args),
                                    OptionsOf(args)))
  IN IF r.threw THEN r
     ELSE [r EXCEPT !.result =
             [id |-> n, from |-> r.result.from,
              resolved |-> Spread(r.result.resolved, parts.passThrough),
              composed |-> EmptyRecord]]

\* The state of the component after render n.
AfterRender(n, args, r) ==
  [n |-> n, args |-> args, result |-> r.result, recomputed |-> r.recomputed,
   calls |-> r.calls, threw |-> r.threw, error |-> r.error]

(***************************************************************************)
(* The state machine: a resolver built by compose from any value and any   *)
(* options, invoked any number of times with any state.                    *)
(***************************************************************************)
Init ==
  /\ resolver \in { compose(v, o) : v \in PropValues, o \in OptionsSet }
  /\ renderProps = Undefined
  /\ outcome = NoFrame
  /\ invoked = FALSE
  /\ hookIn = NoHookIn
  /\ hookOut = NoHookOut
  /\ invocations = 0
  /\ component = NoComponent
  /\ memo = NoMemo
  /\ rendered = NoRendered

Invoke(s) ==
  /\ renderProps' = s
  /\ outcome' = Resolve(resolver.value, resolver.options, s)
  /\ invoked' = TRUE
  /\ UNCHANGED <<resolver, hookIn, hookOut, invocations,
               component, memo, rendered>>

Next == \E s \in States : Invoke(s)

Spec == Init /\ [][Next]_vars

(***************************************************************************)
(* The state machine of a resolver built by composeRender from any value   *)
(* and any options, invoked any number of times with any state.            *)
(***************************************************************************)
InitRender ==
  /\ resolver \in
       { composeRender(v, o) : v \in PropValues, o \in RenderOptionsSet }
  /\ renderProps = Undefined
  /\ outcome = NoRenderFrame
  /\ invoked = FALSE
  /\ hookIn = NoHookIn
  /\ hookOut = NoHookOut
  /\ invocations = 0
  /\ component = NoComponent
  /\ memo = NoMemo
  /\ rendered = NoRendered

InvokeRender(s) ==
  /\ renderProps' = s
  /\ outcome' = ResolveRender(resolver.value, resolver.options, s)
  /\ invoked' = TRUE
  /\ UNCHANGED <<resolver, hookIn, hookOut, invocations,
               component, memo, rendered>>

NextRender == \E s \in States : InvokeRender(s)

SpecRender == InitRender /\ [][NextRender]_vars

(***************************************************************************)
(* The state machine of a component that calls one of the hooks with any   *)
(* props, state map and options, and then, when the hook was               *)
(* useComposableProps, invokes the functions it returned, in any order and *)
(* with any state.                                                         *)
(***************************************************************************)
InitHooks ==
  /\ resolver = compose(Undefined, NoOptions)
  /\ renderProps = Undefined
  /\ outcome = NoFrame
  /\ invoked = FALSE
  /\ hookIn \in [props : PropsSet, state : StateMaps, options : OptionsMaps]
  /\ hookOut = NoHookOut
  /\ invocations = 0
  /\ component = NoComponent
  /\ memo = NoMemo
  /\ rendered = NoRendered

UseComposedProps ==
  /\ hookOut.hook = "none"
  /\ LET fr == useComposedProps(hookIn.props, hookIn.state, hookIn.options)
     IN /\ hookOut' = HookResult("useComposedProps", {}, fr)
        /\ hookIn' = [props |-> fr.props, state |-> fr.state,
                      options |-> fr.options]
  /\ UNCHANGED <<resolver, renderProps, outcome, invoked, invocations,
               component, memo, rendered>>

UseComposableProps ==
  /\ hookOut.hook = "none"
  /\ LET fr == useComposableProps(hookIn.props, hookIn.options)
     IN /\ hookOut' = HookResult("useComposableProps", {}, fr)
        /\ hookIn' = [props |-> fr.props, state |-> hookIn.state,
                      options |-> fr.options]
  /\ UNCHANGED <<resolver, renderProps, outcome, invoked, invocations,
               component, memo, rendered>>

UseComposedPropsWithWhitelist(whitelist) ==
  /\ hookOut.hook = "none"
  /\ LET fr == useComposedPropsWithWhitelist(whitelist, hookIn.props,
                                              hookIn.state, hookIn.options)
     IN /\ hookOut' = HookResult("useComposedPropsWithWhitelist", whitelist, fr)
        /\ hookIn' = [props |-> fr.props, state |-> fr.state,
                      options |-> fr.options]
  /\ UNCHANGED <<resolver, renderProps, outcome, invoked, invocations,
               component, memo, rendered>>

UseComposablePropsWithWhitelist(whitelist) ==
  /\ hookOut.hook = "none"
  /\ LET fr == useComposablePropsWithWhitelist(whitelist, hookIn.props,
                                                hookIn.options)
     IN /\ hookOut' =
             HookResult("useComposablePropsWithWhitelist", whitelist, fr)
        /\ hookIn' = [props |-> fr.props, state |-> hookIn.state,
                      options |-> fr.options]
  /\ UNCHANGED <<resolver, renderProps, outcome, invoked, invocations,
               component, memo, rendered>>

\* composed[key](s)
CallComposed(key, s) ==
  /\ hookOut.hook = "useComposableProps"
  /\ key \in DOMAIN hookOut.composed
  /\ invocations < MaxInvocations
  /\ resolver' = hookOut.composed[key]
  /\ renderProps' = s
  /\ outcome' = Resolve(hookOut.composed[key].value,
                        hookOut.composed[key].options, s)
  /\ invoked' = TRUE
  /\ invocations' = invocations + 1
  /\ UNCHANGED <<hookIn, hookOut,
               component, memo, rendered>>

NextHooks ==
  \/ UseComposedProps
  \/ UseComposableProps
  \/ \E whitelist \in SUBSET Keys : UseComposedPropsWithWhitelist(whitelist)
  \/ \E whitelist \in SUBSET Keys : UseComposablePropsWithWhitelist(whitelist)
  \/ \E key \in Keys, s \in States : CallComposed(key, s)

SpecHooks == InitHooks /\ [][NextHooks]_vars

(***************************************************************************)
(* The state machine of a component that is rendered again and again, each *)
(* time handing its hook the objects of the last render or other ones.     *)
(***************************************************************************)
InitMemo ==
  /\ resolver = compose(Undefined, NoOptions)
  /\ renderProps = Undefined
  /\ outcome = NoFrame
  /\ invoked = FALSE
  /\ hookIn = NoHookIn
  /\ hookOut = NoHookOut
  /\ invocations = 0
  /\ component \in Components
  /\ memo = NoMemo
  /\ rendered = NoRendered

RenderComposedProps(args) ==
  /\ component.hook = "useComposedProps"
  /\ rendered.n < MaxRenders
  /\ LET r == RenderedComposedProps(memo, rendered.n + 1, args,
                                    component.customDeps)
     IN /\ memo' = r.memo
        /\ rendered' = AfterRender(rendered.n + 1, args, r)
  /\ UNCHANGED <<resolver, renderProps, outcome, invoked, hookIn, hookOut,
                 invocations, component>>

RenderComposableProps(args) ==
  /\ component.hook = "useComposableProps"
  /\ rendered.n < MaxRenders
  /\ LET r == RenderedComposableProps(memo, rendered.n + 1, args,
                                      component.customDeps)
     IN /\ memo' = r.memo
        /\ rendered' = AfterRender(rendered.n + 1, args, r)
  /\ UNCHANGED <<resolver, renderProps, outcome, invoked, hookIn, hookOut,
                 invocations, component>>

RenderWithWhitelist(args) ==
  /\ component.hook = "useComposedPropsWithWhitelist"
  /\ rendered.n < MaxRenders
  /\ LET r == RenderedWithWhitelist(component.whitelist, memo,
                                    rendered.n + 1, args,
                                    component.customDeps)
     IN /\ memo' = r.memo
        /\ rendered' = AfterRender(rendered.n + 1, args, r)
  /\ UNCHANGED <<resolver, renderProps, outcome, invoked, hookIn, hookOut,
                 invocations, component>>

NextMemo ==
  \E args \in RenderArgs :
    \/ RenderComposedProps(args)
    \/ RenderComposableProps(args)
    \/ RenderWithWhitelist(args)

SpecMemo == InitMemo /\ [][NextMemo]_vars

(***************************************************************************)
(* Properties of compose.                                                  *)
(***************************************************************************)
\* What an invocation that made this one call, and nothing after it, ends
\* with: the value the call returned, or the error it threw.
EndsAs(c) ==
  /\ outcome.result = c.ret
  /\ outcome.threw = c.threw
  /\ outcome.error = c.error

\* C1: compose(v) without options, v not callable, returns exactly v for
\* every state, and calls nothing.
C1_LiteralReturnedAsIs ==
  (invoked /\ ~resolver.options.given /\ TypeOf(resolver.value) # "function")
    => /\ outcome.result = resolver.value
       /\ ~outcome.threw
       /\ outcome.calls = <<>>

C1_Witness ==
  /\ invoked
  /\ ~resolver.options.given
  /\ resolver.value = Bool(0)
  /\ outcome.result = Bool(0)

\* C2: compose(f) without options, f callable, returns f(s, undefined): f is
\* called exactly once, with the state first and undefined second.
C2_CallableCalledOnceWithState ==
  (invoked /\ ~resolver.options.given /\ TypeOf(resolver.value) = "function")
    => /\ outcome.calls =
            << Entry("value", resolver.value, <<renderProps, Undefined>>) >>
       /\ EndsAs(Call(resolver.value, <<renderProps, Undefined>>))

C2_Witness ==
  /\ invoked
  /\ ~resolver.options.given
  /\ resolver.value = FnOf("retArg1")
  /\ outcome.result = renderProps
  /\ Len(outcome.calls) = 1

(***************************************************************************)
(* What the last invocation was handed, recomputed from the resolver's     *)
(* value and options and the state it was invoked with.                    *)
(***************************************************************************)
\* The outcome of resolving a callable options.default against the state.
DefaultCall ==
  IF TypeOf(OptDefault(resolver.options)) = "function"
    THEN Call(OptDefault(resolver.options), <<renderProps>>)
    ELSE Returns(OptDefault(resolver.options))

\* The default value in effect during the invocation.
EffDefault == DefaultCall.ret

\* The evaluation step took place, and what it yielded.
Evaluated == invoked /\ ~DefaultCall.threw

Evaluation ==
  IF TypeOf(resolver.value) = "function"
    THEN Call(resolver.value, <<renderProps, EffDefault>>)
    ELSE Returns(resolver.value)

EvalAbsent == Evaluated /\ ~Evaluation.threw /\ Evaluation.ret = Undefined

FallbackGiven == OptFallback(resolver.options) # Undefined
TransformGiven == OptTransform(resolver.options) # Undefined

FallbackCall == Call(OptFallback(resolver.options), <<renderProps, EffDefault>>)

\* transform(v, state, default)
TransformCall(v) ==
  Call(OptTransform(resolver.options), <<v, renderProps, EffDefault>>)

Called(role) == \E i \in 1..Len(outcome.calls) : outcome.calls[i].role = role

\* C3 as stated: whenever evaluation yields absent and fallback is given, the
\* result is fallback(state, default), with transform, if given, applied to it.
C3_Original ==
  (EvalAbsent /\ FallbackGiven) =>
    IF FallbackCall.threw THEN EndsAs(FallbackCall)
    ELSE IF TransformGiven THEN EndsAs(TransformCall(FallbackCall.ret))
    ELSE EndsAs(FallbackCall)

\* C3 (amended): whenever evaluation yields absent, fallback is given and
\* fallback(state, default) yields a non-absent value F, the result is
\* transform(F, state, default) if transform is given and F otherwise, also
\* when options.default is specified; a throwing fallback ends the invocation.
C3_FallbackResultWins ==
  (EvalAbsent /\ FallbackGiven) =>
    /\ FallbackCall.threw => EndsAs(FallbackCall)
    /\ (~FallbackCall.threw /\ FallbackCall.ret # Undefined) =>
         IF TransformGiven THEN EndsAs(TransformCall(FallbackCall.ret))
         ELSE EndsAs(FallbackCall)

C3_Witness ==
  /\ invoked
  /\ resolver.value = FnOf("retUndefined")
  /\ resolver.options.fallback = FnOf("retConst")
  /\ resolver.options.transform = Undefined
  /\ resolver.options.default = Num(1)
  /\ outcome.result = Str(1)

\* C4: whenever evaluation yields absent, fallback is missing or yields absent
\* too, and options.default is a non-absent literal D, the result is
\* transform(D, state, D) if transform is given and D otherwise.
C4_DefaultSubstituted ==
  ( /\ EvalAbsent
    /\ ~FallbackGiven \/ (~FallbackCall.threw /\ FallbackCall.ret = Undefined)
    /\ TypeOf(OptDefault(resolver.options)) # "function"
    /\ OptDefault(resolver.options) # Undefined ) =>
    IF TransformGiven
      THEN EndsAs(Call(OptTransform(resolver.options),
                       << OptDefault(resolver.options), renderProps,
                          OptDefault(resolver.options) >>))
      ELSE outcome.result = OptDefault(resolver.options) /\ ~outcome.threw

C4_Witness ==
  /\ invoked
  /\ resolver.value = Undefined
  /\ resolver.options.fallback = FnOf("retUndefined")
  /\ resolver.options.default = Str(1)
  /\ resolver.options.transform = FnOf("retArg2")
  /\ Called("fallback")
  /\ outcome.calls[Len(outcome.calls)] =
       Entry("transform", FnOf("retArg2"), <<Str(1), renderProps, Str(1)>>)
  /\ outcome.result = renderProps

NullValued == resolver.value \in {Null, FnOf("retNull")}

C6_NullIsTransformed ==
  ( /\ Evaluated
    /\ ~Evaluation.threw
    /\ Evaluation.ret = Null
    /\ TransformGiven ) =>
    /\ EndsAs(TransformCall(Null))
    /\ ~Called("fallback")
    /\ outcome.calls[Len(outcome.calls)] =
         Entry("transform", OptTransform(resolver.options),
               <<Null, renderProps, EffDefault>>)

C6_Witness ==
  /\ invoked
  /\ resolver.value = Null
  /\ resolver.options.fallback = FnOf("retArg1")
  /\ resolver.options.default = Num(1)
  /\ resolver.options.transform = FnOf("retConst")
  /\ outcome.result = Str(1)

\* The default forwarded by every call of the log to a callable value (second
\* argument), to fallback (second) and to transform (third) is d.
ForwardedDefaultIs(d) ==
  \A i \in 1..Len(outcome.calls) :
    /\ outcome.calls[i].role \in {"value", "fallback"} =>
         outcome.calls[i].args = <<renderProps, d>>
    /\ outcome.calls[i].role = "transform" =>
         /\ Len(outcome.calls[i].args) = 3
         /\ outcome.calls[i].args[3] = d

C8_SameDefaultForwarded ==
  invoked => ForwardedDefaultIs(EffDefault)

C8_Witness ==
  /\ invoked
  /\ resolver.options.default = Str(1)
  /\ Len(outcome.calls) = 3
  /\ outcome.calls[1].role = "value" /\ outcome.calls[1].args[2] = Str(1)
  /\ outcome.calls[2].role = "fallback" /\ outcome.calls[2].args[2] = Str(1)
  /\ outcome.calls[3].role = "transform" /\ outcome.calls[3].args[3] = Str(1)
  /\ outcome.calls[3].args[1] = renderProps

\* The position of a callable in the pipeline.
Rank(role) ==
  CASE role = "default" -> 0
    [] role = "value" -> 1
    [] role = "fallback" -> 2
    [] role = "transform" -> 3

\* C9: in every invocation the callable value is invoked before fallback and
\* fallback before transform, each at most once, transform is the last
\* callable invoked, and what transform receives is what evaluation, fallback
\* and default substitution, in this order, left.
C9_FixedOrder ==
  invoked =>
    /\ \A i, j \in 1..Len(outcome.calls) :
         i < j => Rank(outcome.calls[i].role) < Rank(outcome.calls[j].role)
    /\ Called("value") => TypeOf(resolver.value) = "function"
    /\ Called("transform") =>
         outcome.calls[Len(outcome.calls)].args[1] =
           IF ~EvalAbsent THEN Evaluation.ret
           ELSE IF FallbackGiven /\ FallbackCall.ret # Undefined
             THEN FallbackCall.ret
           ELSE EffDefault

C9_Witness ==
  /\ invoked
  /\ Len(outcome.calls) = 4
  /\ outcome.calls[1].role = "default"
  /\ outcome.calls[2].role = "value"
  /\ outcome.calls[3].role = "fallback"
  /\ outcome.calls[4].role = "transform"

\* C10: fallback is invoked only when the primary evaluation yields absent;
\* for a value whose evaluation is not undefined (null, false, 0 and the
\* empty string included) it is never called.
C10_FallbackOnlyWhenAbsent ==
  (invoked /\ Called("fallback")) => EvalAbsent

C10_Witness ==
  /\ invoked
  /\ resolver.value \in {Bool(0), Num(0), Str(0)}
  /\ resolver.options.fallback = FnOf("retConst")
  /\ outcome.result = resolver.value
  /\ ~Called("fallback")

\* The call of the log at position i threw.
ThrewAt(i) == Call(outcome.calls[i].fn, outcome.calls[i].args).threw

\* The value left for transform: absent after evaluation, fallback and default.
StillAbsent ==
  /\ EvalAbsent
  /\ ~FallbackGiven \/ (~FallbackCall.threw /\ FallbackCall.ret = Undefined)
  /\ EffDefault = Undefined

\* C11: transform is invoked only on a non-absent value; when the result is
\* still absent after evaluation, fallback and default substitution,
\* transform is not called and the resolver returns undefined.
C11_TransformOnlyOnPresent ==
  invoked =>
    /\ \A i \in 1..Len(outcome.calls) :
         outcome.calls[i].role = "transform" =>
           outcome.calls[i].args[1] # Undefined
    /\ StillAbsent =>
         /\ ~Called("transform")
         /\ outcome.result = Undefined
         /\ ~outcome.threw

C11_Witness ==
  /\ invoked
  /\ resolver.value = FnOf("retUndefined")
  /\ resolver.options.fallback = FnOf("retUndefined")
  /\ resolver.options.default = Undefined
  /\ resolver.options.transform = FnOf("retConst")
  /\ Len(outcome.calls) = 2
  /\ outcome.result = Undefined

\* C12: an error thrown by the callable value, by fallback or by transform
\* leaves the returned function as the same error; nothing is caught or
\* replaced by a result, and building the resolver calls nothing and throws
\* nothing.
C12_ErrorPropagates ==
  /\ ~invoked => (outcome.calls = <<>> /\ ~outcome.threw)
  /\ invoked =>
       /\ \A i \in 1..Len(outcome.calls) :
            ThrewAt(i) =>
              /\ outcome.threw
              /\ outcome.error =
                   Call(outcome.calls[i].fn, outcome.calls[i].args).error
       /\ outcome.threw => (Len(outcome.calls) >= 1 /\ ThrewAt(Len(outcome.calls)))

C12_Witness ==
  /\ invoked
  /\ resolver.value = FnOf("throwsA")
  /\ resolver.options.fallback = FnOf("retConst")
  /\ resolver.options.transform = FnOf("throwsB")
  /\ outcome.threw
  /\ outcome.error = Err(1)

\* C13: the pipeline stops at the first throw: only the last call of an
\* invocation can have thrown, no callable is called a second time, and an
\* invocation that threw returns no value.
C13_AbortsAtFirstThrow ==
  invoked =>
    /\ \A i \in 1..Len(outcome.calls) : ThrewAt(i) => i = Len(outcome.calls)
    /\ \A i, j \in 1..Len(outcome.calls) :
         outcome.calls[i].role = outcome.calls[j].role => i = j
    /\ outcome.threw => outcome.result = Undefined

C13_Witness ==
  /\ invoked
  /\ resolver.value = Undefined
  /\ resolver.options.fallback = FnOf("throwsB")
  /\ resolver.options.default = Str(1)
  /\ resolver.options.transform = FnOf("retConst")
  /\ outcome.threw
  /\ outcome.error = Err(2)
  /\ Len(outcome.calls) = 1

\* compose(value, {})
EmptyOptions ==
  [given |-> TRUE, fallback |-> Undefined, transform |-> Undefined,
   default |-> Undefined]

\* C14: compose(value)(state), compose(value, undefined)(state) and
\* compose(value, {})(state) give the same result, the plain evaluation of
\* value: a literal as it is, a callable called once with (state, undefined).
C14_OmittedOptionsAreEmpty ==
  (invoked /\ resolver.options \in {NoOptions, EmptyOptions}) =>
    /\ outcome = Resolve(resolver.value, NoOptions, renderProps)
    /\ outcome = Resolve(resolver.value, EmptyOptions, renderProps)
    /\ IF TypeOf(resolver.value) = "function"
         THEN /\ EndsAs(Call(resolver.value, <<renderProps, Undefined>>))
              /\ outcome.calls =
                   << Entry("value", resolver.value, <<renderProps, Undefined>>) >>
         ELSE /\ outcome.result = resolver.value
              /\ ~outcome.threw
              /\ outcome.calls = <<>>

C14_Witness ==
  /\ invoked
  /\ resolver.options = EmptyOptions
  /\ resolver.value = FnOf("retArg1")
  /\ outcome.result = renderProps

(***************************************************************************)
(* Properties of the hooks.                                                *)
(***************************************************************************)
\* What one invocation gives when it is the only one ever made: the pipeline
\* of section 4.1 applied to value v, options o and state s.
Alone(v, o, s) ==
  LET dc == IF TypeOf(OptDefault(o)) = "function"
              THEN Call(OptDefault(o), <<s>>)
              ELSE Returns(OptDefault(o))
      d == dc.ret
      ev == IF TypeOf(v) = "function" THEN Call(v, <<s, d>>) ELSE Returns(v)
      fb == IF ev.ret = Undefined /\ OptFallback(o) # Undefined
              THEN Call(OptFallback(o), <<s, d>>)
              ELSE ev
      pre == IF fb.ret = Undefined THEN d ELSE fb.ret
      tr == IF OptTransform(o) # Undefined /\ pre # Undefined
              THEN Call(OptTransform(o), <<pre, s, d>>)
              ELSE Returns(pre)
  IN IF dc.threw THEN dc
     ELSE IF ev.threw THEN ev
     ELSE IF fb.threw THEN fb
     ELSE tr

\* C15: whatever invocations of the composed functions came before, of the
\* same function or of another one, with the same state or another one, an
\* invocation gives what it gives when run alone, determined by its value,
\* its options and its state.
C15_NoStateBetweenInvocations ==
  (hookOut.hook = "useComposableProps" /\ invoked) =>
    LET a == Alone(resolver.value, resolver.options, renderProps)
    IN /\ \E k \in DOMAIN hookOut.composed : resolver = hookOut.composed[k]
       /\ outcome.result = a.ret
       /\ outcome.threw = a.threw
       /\ outcome.error = a.error

C15_Witness ==
  /\ invocations = 2
  /\ DOMAIN hookOut.composed = {1, 2}
  /\ hookOut.composed[1].value = FnOf("throwsA")
  /\ resolver = hookOut.composed[2]
  /\ resolver.value = FnOf("retArg1")
  /\ outcome.result = renderProps

\* C16: no call of a hook or of a composed function changes the props
\* record, the state record or the options record it was handed: they have
\* the same keys and the same values afterwards.
C16_InputsNeverMutated ==
  [][hookIn' = hookIn]_vars

C16_Witness ==
  /\ hookOut.hook = "useComposedProps"
  /\ ~hookOut.threw
  /\ DOMAIN hookOut.out = Keys
  /\ \A k \in Keys : hookOut.out[k] # Get(hookIn.props, k)

\* compose(props[k], options[k])(state[k])
ResolvedAlone(k) ==
  Resolve(Get(hookIn.props, k), OptionFor(hookIn.options, k),
          Get(hookIn.state, k))

\* C17: every key k of the record useComposedProps returns holds
\* compose(props[k], options[k])(state[k]), resolved with the state and the
\* options of k and of no other key.
C17_PerKeyStateAndOptions ==
  (hookOut.hook = "useComposedProps" /\ ~hookOut.threw) =>
    \A k \in DOMAIN hookOut.out :
      /\ ~ResolvedAlone(k).threw
      /\ hookOut.out[k] = ResolvedAlone(k).result

C17_Witness ==
  /\ hookOut.hook = "useComposedProps"
  /\ ~hookOut.threw
  /\ DOMAIN hookIn.props = {1, 2}
  /\ hookIn.props[1] = FnOf("retArg1")
  /\ hookIn.props[2] = FnOf("retArg1")
  /\ hookOut.out[1] = hookIn.state[1]
  /\ hookOut.out[2] = hookIn.state[2]
  /\ hookIn.state[1] # hookIn.state[2]

\* C18: the record returned by useComposedProps and the one returned by
\* useComposableProps have exactly the keys of props and of options; a key
\* that has options and is missing from props is resolved from undefined.
C18_KeysOfPropsAndOptions ==
  /\ (hookOut.hook = "useComposedProps" /\ ~hookOut.threw) =>
       /\ DOMAIN hookOut.out = DOMAIN hookIn.props \cup OptionKeys(hookIn.options)
       /\ \A k \in OptionKeys(hookIn.options) \ DOMAIN hookIn.props :
            hookOut.out[k] =
              Resolve(Undefined, hookIn.options.map[k], hookIn.state[k]).result
  /\ hookOut.hook = "useComposableProps" =>
       /\ ~hookOut.threw
       /\ DOMAIN hookOut.composed =
            DOMAIN hookIn.props \cup OptionKeys(hookIn.options)
       /\ \A k \in OptionKeys(hookIn.options) \ DOMAIN hookIn.props :
            hookOut.composed[k] = compose(Undefined, hookIn.options.map[k])

C18_Witness ==
  /\ hookOut.hook = "useComposedProps"
  /\ ~hookOut.threw
  /\ DOMAIN hookIn.props = {1}
  /\ hookIn.options.given
  /\ DOMAIN hookIn.options.map = {2}
  /\ hookIn.options.map[2] = Opt(Undefined, FnOf("retArg2"), Num(1))
  /\ DOMAIN hookOut.out = {1, 2}
  /\ hookOut.out[2] = hookIn.state[2]

\* C19: the hook of createUseComposedProps(whitelist) returns, for every key
\* k of props that is not whitelisted, props[k] itself, without invoking it;
\* with an empty whitelist the record it returns equals props.
C19_PassThroughUnchanged ==
  (hookOut.hook = "useComposedPropsWithWhitelist" /\ ~hookOut.threw) =>
    /\ \A k \in DOMAIN hookIn.props \ hookOut.whitelist :
         /\ k \in DOMAIN hookOut.out
         /\ hookOut.out[k] = hookIn.props[k]
         /\ \A i \in 1..Len(hookOut.calls) :
              ~(hookOut.calls[i].key = k /\ hookOut.calls[i].role = "value")
    /\ hookOut.whitelist = {} => hookOut.out = hookIn.props

\* C20: for every whitelisted key k of props, the hook of
\* createUseComposedProps(whitelist) returns
\* compose(props[k], options[k])(state[k]), for a static prop and for a
\* function alike.
C20_WhitelistedResolved ==
  (hookOut.hook = "useComposedPropsWithWhitelist" /\ ~hookOut.threw) =>
    \A k \in hookOut.whitelist \cap DOMAIN hookIn.props :
      /\ k \in DOMAIN hookOut.out
      /\ ~ResolvedAlone(k).threw
      /\ hookOut.out[k] = ResolvedAlone(k).result
      /\ hookOut.out[k] =
           useComposedProps(
             [j \in hookOut.whitelist \cap DOMAIN hookIn.props |-> hookIn.props[j]],
             hookIn.state, hookIn.options).resolved[k]

C20_Witness ==
  /\ hookOut.hook = "useComposedPropsWithWhitelist"
  /\ ~hookOut.threw
  /\ hookOut.whitelist = {1}
  /\ DOMAIN hookIn.props = {1, 2}
  /\ hookIn.props[1] = FnOf("retArg1")
  /\ hookIn.props[2] = FnOf("retArg1")
  /\ hookOut.out[1] = hookIn.state[1]
  /\ hookOut.out[2] = FnOf("retArg1")

\* C21: the hook of createUseComposedProps(whitelist) applies options to
\* whitelisted keys only: it calls no fallback, default or transform of a key
\* outside the whitelist, and every key of its output that is outside the
\* whitelist is a key of props and holds props[k], whatever keys options has.
C21_OptionsOnWhitelistedOnly ==
  hookOut.hook = "useComposedPropsWithWhitelist" =>
    /\ \A i \in 1..Len(hookOut.calls) :
         hookOut.calls[i].key \in hookOut.whitelist
    /\ ~hookOut.threw =>
         \A k \in DOMAIN hookOut.out \ hookOut.whitelist :
           /\ k \in DOMAIN hookIn.props
           /\ hookOut.out[k] = hookIn.props[k]

\* compose(props[k], options[k])(s), worked out from the arguments of the hook.
ComposeOfKey(k, s) ==
  Alone(Get(hookIn.props, k), OptionFor(hookIn.options, k), s)

\* What invoking a function of the returned record with state s gives.
Applied(f, s) ==
  LET r == Resolve(f.value, f.options, s)
  IN [ret |-> r.result, threw |-> r.threw, error |-> r.error]

\* C25: every function composed[k] that useComposableProps returns gives, for
\* every state s, what compose(props[k], options[k])(s) gives; an invocation
\* evaluates the prop against the state passed to that invocation.
C25_ComposedIsComposeOfKey ==
  hookOut.hook = "useComposableProps" =>
    /\ \A k \in DOMAIN hookOut.composed : \A s \in States :
         Applied(hookOut.composed[k], s) = ComposeOfKey(k, s)
    /\ invoked =>
         \E k \in DOMAIN hookOut.composed :
           /\ resolver = hookOut.composed[k]
           /\ EndsAs(ComposeOfKey(k, renderProps))

C25_Witness ==
  /\ hookOut.hook = "useComposableProps"
  /\ invocations = 2
  /\ DOMAIN hookIn.props = {1, 2}
  /\ hookIn.props[1] = Undefined
  /\ hookIn.props[2] = Str(1)
  /\ hookIn.options.given
  /\ DOMAIN hookIn.options.map = {1}
  /\ hookIn.options.map[1] = Opt(FnOf("retArg1"), Undefined, Undefined)
  /\ resolver = hookOut.composed[1]
  /\ renderProps = Obj(2)
  /\ outcome.result = Obj(2)

\* useComposableProps(props, options)[k](state[k]), for the arguments the
\* component handed to useComposedProps.
ViaComposable(k) ==
  Applied(useComposableProps(hookIn.props, hookIn.options).composed[k],
          Get(hookIn.state, k))

\* C29: the two batch hooks agree: the record useComposedProps returns has
\* the keys of the record useComposableProps returns for the same props and
\* options, and holds under each key k what that record's function gives for
\* state[k]; useComposedProps throws only an error one of those functions
\* throws.
C29_BatchHooksAgree ==
  hookOut.hook = "useComposedProps" =>
    LET fns == useComposableProps(hookIn.props, hookIn.options).composed IN
    IF hookOut.threw
      THEN \E k \in DOMAIN fns :
             ViaComposable(k).threw /\ ViaComposable(k).error = hookOut.error
      ELSE /\ DOMAIN hookOut.out = DOMAIN fns
           /\ \A k \in DOMAIN fns :
                /\ ~ViaComposable(k).threw
                /\ hookOut.out[k] = ViaComposable(k).ret

C29_Witness ==
  /\ hookOut.hook = "useComposedProps"
  /\ ~hookOut.threw
  /\ DOMAIN hookIn.props = {1}
  /\ hookIn.props[1] = FnOf("retArg1")
  /\ hookIn.options.given
  /\ DOMAIN hookIn.options.map = {2}
  /\ hookIn.options.map[2] = Opt(FnOf("retUndefined"), Undefined, Str(0))
  /\ hookOut.out[1] = hookIn.state[1]
  /\ hookOut.out[2] = Str(0)
  /\ DOMAIN useComposableProps(hookIn.props, hookIn.options).composed = {1, 2}

(***************************************************************************)
(* The function form of options.default.                                   *)
(***************************************************************************)
\* Evaluation and fallback left nothing: the place where the default is
\* substituted.
AbsentBeforeDefault ==
  /\ EvalAbsent
  /\ ~FallbackGiven \/ (~FallbackCall.threw /\ FallbackCall.ret = Undefined)

C26_WhitelistedMadeComposable ==
  hookOut.hook = "useComposablePropsWithWhitelist" =>
    /\ ~hookOut.threw
    /\ hookOut.calls = <<>>
    /\ \A k \in hookOut.whitelist \cap DOMAIN hookIn.props :
         /\ k \in DOMAIN hookOut.composed
         /\ k \notin DOMAIN hookOut.out
         /\ \A s \in States :
              Applied(hookOut.composed[k], s) = ComposeOfKey(k, s)
    /\ \A k \in DOMAIN hookIn.props \ hookOut.whitelist :
         /\ k \in DOMAIN hookOut.out
         /\ k \notin DOMAIN hookOut.composed
         /\ hookOut.out[k] = hookIn.props[k]

C26_Witness ==
  /\ hookOut.hook = "useComposablePropsWithWhitelist"
  /\ hookOut.whitelist = {1}
  /\ DOMAIN hookIn.props = {1, 2}
  /\ hookIn.props[1] = Str(1)
  /\ hookIn.props[2] = FnOf("retArg1")
  /\ hookIn.options.given
  /\ DOMAIN hookIn.options.map = {1, 2}
  /\ hookIn.options.map[1] = Opt(Undefined, FnOf("retArg2"), Num(1))
  /\ Applied(hookOut.composed[1], Obj(1)) = Returns(Obj(1))
  /\ hookOut.out[2] = FnOf("retArg1")
  /\ DOMAIN hookOut.composed = {1}

(***************************************************************************)
(* Properties of composeRender.                                            *)
(***************************************************************************)
RenderGiven == Truthy(OptRender(resolver.options))

\* What the evaluation step ends with: the value a call returned, or, when
\* the call threw, the end of the invocation with that error.
EvaluatesAs(c) ==
  IF c.threw
    THEN outcome.threw /\ outcome.error = c.error /\ Len(outcome.calls) = 1
    ELSE outcome.evaluated = c.ret

\* C28: options.render of composeRender is the renderer of static values only:
\* for a value that is not callable, with render given, the evaluation result
\* is render(value, state); for a callable value render is never invoked and
\* the evaluation result is value(state).
C28_RenderForStaticOnly ==
  invoked =>
    /\ (TypeOf(resolver.value) # "function" /\ RenderGiven) =>
         /\ outcome.calls[1] =
              Entry("render", OptRender(resolver.options),
                    <<resolver.value, renderProps>>)
         /\ \A i \in 2..Len(outcome.calls) : outcome.calls[i].role # "render"
         /\ EvaluatesAs(Call(OptRender(resolver.options),
                             <<resolver.value, renderProps>>))
    /\ TypeOf(resolver.value) = "function" =>
         /\ ~Called("render")
         /\ outcome.calls[1] = Entry("value", resolver.value, <<renderProps>>)
         /\ EvaluatesAs(Call(resolver.value, <<renderProps>>))

C28_Witness ==
  /\ invoked
  /\ resolver.value = Str(1)
  /\ resolver.options.given
  /\ resolver.options.render = FnOf("retArg2")
  /\ resolver.options.transform = FnOf("retNull")
  /\ renderProps = Obj(1)
  /\ outcome.evaluated = Obj(1)
  /\ outcome.result = Null
  /\ Len(outcome.calls) = 2

(***************************************************************************)
(* Properties of the memoization across renders.                           *)
(***************************************************************************)
\* A render that follows a render which returned.
Rerender ==
  /\ rendered.n >= 1
  /\ ~rendered.threw
  /\ rendered'.n = rendered.n + 1

\* The render is handed the very objects of the render before.
SameObjects ==
  /\ rendered'.args.props = rendered.args.props
  /\ rendered'.args.state = rendered.args.state
  /\ rendered'.args.options = rendered.args.options

\* What the factory of the component's hook makes of the arguments.
FactoryOf(args) ==
  IF component.hook = "useComposableProps"
    THEN useComposableProps(PropsOf(args), OptionsOf(args))
    ELSE useComposedProps(PropsOf(args), StateOf(args), OptionsOf(args))

\* The render returned a record made in this render from its own arguments.
NewlyComputed ==
  /\ rendered'.recomputed
  /\ ~rendered'.threw =>
       /\ rendered'.result.id = rendered'.n
       /\ rendered'.result.id # rendered.result.id
       /\ rendered'.result.from = rendered'.args
       /\ rendered'.result.resolved = FactoryOf(rendered'.args).resolved
       /\ rendered'.result.composed = FactoryOf(rendered'.args).composed

\* The render returned the record of the render before, and called nothing.
SameRecord ==
  /\ rendered'.result = rendered.result
  /\ ~rendered'.recomputed
  /\ ~rendered'.threw
  /\ rendered'.calls = <<>>

\* C22: with the default dependency list, a render of useComposedProps that
\* is handed the same props, state and options objects as the render before
\* returns the same record and invokes no callable; a render that is handed
\* another object for any of the three returns a newly computed record.
C22_MemoizedOnDefaultDeps ==
  [][ ( /\ component.hook = "useComposedProps"
        /\ ~component.customDeps
        /\ Rerender ) =>
      IF SameObjects THEN SameRecord ELSE NewlyComputed ]_vars

C22_Witness ==
  /\ component.hook = "useComposedProps"
  /\ ~component.customDeps
  /\ rendered.n = 3
  /\ ~rendered.recomputed
  /\ rendered.result.id = 2
  /\ rendered.args.props = 2
  /\ rendered.result.resolved[1] = StateOf(rendered.args)[1]

\* C23: with a dependency list of the caller, useComposedProps and
\* useComposableProps recompute exactly when an element of the list changes:
\* a render with the dependency of the render before returns the record of
\* the render before, made from the arguments of an earlier render, also
\* when props changed; a render with another dependency returns a new record
\* made from its own arguments.
C23_RecomputedWhenDepChanges ==
  [][ ( /\ component.hook \in {"useComposedProps", "useComposableProps"}
        /\ component.customDeps
        /\ Rerender ) =>
      IF rendered'.args.dep = rendered.args.dep
        THEN /\ SameRecord
             /\ rendered'.result.resolved =
                  FactoryOf(rendered'.result.from).resolved
             /\ rendered'.result.composed =
                  FactoryOf(rendered'.result.from).composed
        ELSE NewlyComputed ]_vars

C23_Witness ==
  /\ component.hook = "useComposedProps"
  /\ component.customDeps
  /\ rendered.n = 2
  /\ ~rendered.recomputed
  /\ rendered.args.props = 3
  /\ rendered.result.from.props = 1
  /\ rendered.result.resolved # FactoryOf(rendered.args).resolved

====
